---- MODULE Spec2Model ----
(***************************************************************************)
(* Model of the gym reward strategies, the closed-loop aggregation utility *)
(* and the angular error function of l5kit:                                *)
(*   l5kit/environment/reward.py        CLE_Reward, OLE_Reward             *)
(*   l5kit/environment/cle_utils.py     aggregate_cle_metrics              *)
(*   l5kit/evaluation/error_functions.py closest_angle                     *)
(* Floating-point scalars are modelled by integers.  An optional value is  *)
(* a sequence of length at most one: <<>> is "absent", <<v>> is "v".       *)
(***************************************************************************)
EXTENDS Integers, Sequences, FiniteSets, TLC

VARIABLES
    \* ---- CLE_Reward instance fields (reward.py 70-81, 123)
    enable_clip, rew_clip_thresh, use_yaw, yaw_weight, stop_flag, stop_thresh,
    stop_error,
    \* ---- metric_set.evaluator.scene_metric_results (reward.py 109)
    scene_metric_results,
    \* ---- outcome of the most recent CLE_Reward call
    cle_call,
    \* ---- outcome of the most recent OLE_Reward call (the class has no fields
    \*      besides reward_prefix)
    ole_call,
    \* ---- ClosedLoopEvaluator.validation_results() store, and the outcome of
    \*      the most recent call on the evaluator
    plan_validators, validation_results, agg_call,
    \* ---- closest_angle: its inputs and what it returned
    angle_call

cle_vars == <<enable_clip, rew_clip_thresh, use_yaw, yaw_weight, stop_flag,
              stop_thresh, stop_error, scene_metric_results, cle_call>>

ole_vars == <<ole_call>>
agg_vars == <<plan_validators, validation_results, agg_call>>
angle_vars == <<angle_call>>

vars == <<cle_vars, ole_vars, agg_vars, angle_vars>>

\* ------------------------------------------------------------------ bounds
MaxFrame  == 1      \* frame_index ranges over 0..MaxFrame
MaxSeries == 2      \* a metric time series has at most MaxSeries elements
MaxPositions == 3   \* a positions array has 1..MaxPositions elements
MaxScene  == 1      \* the evaluator accumulates scenes 0..MaxScene
AngleDiv  == 2      \* angles are integer multiples of pi / AngleDiv
MaxAngle  == 4      \* angles range over -MaxAngle..MaxAngle such multiples

\* ------------------------------------------------------------------ helpers
Abs(x) == IF x < 0 THEN -x ELSE x

\* Python's builtin max(a, b) on two numbers
Max(a, b) == IF b > a THEN b ELSE a

None == <<>>
Some(v) == <<v>>
IsNone(o) == Len(o) = 0
Val(o) == o[1]

\* ------------------------------------------------------------------ domains
Scenes == {0}
SceneLists == {<<>>} \cup {<<s>> : s \in Scenes} \cup {<<s, t>> : s, t \in Scenes}
Frames == 0..MaxFrame
ClipThreshs == {15}
YawWeights == {None, Some(3)}
StopThreshs == {20}
StopSettings == {10, 20}

\* One frame's metric values: <<displacement error, yaw error>>.  The
\* displacement error is a norm (never negative); the yaw error is signed.
FrameErrors == {<<0, -1>>, <<20, -1>>, <<20, 2>>}

SeqsOfLen(S, n) == [1..n -> S]
Column(rows, k) == [i \in 1..Len(rows) |-> rows[i][k]]

\* The per-scene result of the metric-evaluation strategy: a mapping from
\* metric name to a time series with one element per frame.  Either series
\* may be missing (a metric set that does not compute it).
SceneMetrics ==
    UNION { { [displacement_error_l2 |-> Column(rows, 1), yaw_error_ca |-> Column(rows, 2)],
              [displacement_error_l2 |-> Column(rows, 1)],
              [yaw_error_ca |-> Column(rows, 2)] } :
            rows \in UNION { SeqsOfLen(FrameErrors, n) : n \in 0..MaxSeries } }
    \cup { <<>> }

\* ------------------------------------------------------ CLE_Reward (reward.py)

\* a precondition that only rejects the empty list
SceneCountOk_nonempty(scene_indices) == Len(scene_indices) >= 1

\* reward.py 100: assert len(scene_indices) == 1
SceneCountOk(scene_indices) == Len(scene_indices) = 1

\* reward.py 103-106: one SimulationOutputCLE per scene index is handed to
\* metric_set.evaluate, which stores the metric time series of each of them.
Evaluate(results, scene_indices, metrics) ==
    [s \in (DOMAIN results) \cup {scene_indices[i] : i \in 1..Len(scene_indices)} |->
        IF \E i \in 1..Len(scene_indices) : scene_indices[i] = s
        THEN metrics ELSE results[s]]

\* metric_set.reset(): the evaluator forgets every scene's metrics.
MetricSetReset(results) == <<>>

\* a lookup that substitutes 0 for a missing series or element
Lookup_defaulting(scene_metrics, name, index) ==
    IF name \notin DOMAIN scene_metrics \/ index + 1 > Len(scene_metrics[name])
    THEN [err |-> "", val |-> Some(0)]
    ELSE [err |-> "", val |-> Some(scene_metrics[name][index + 1])]

\* scene_metrics[name][index] (reward.py 110-111): a dict lookup followed by
\* a tensor index; index is the 0-based Python index.
Lookup(scene_metrics, name, index) ==
    IF name \notin DOMAIN scene_metrics THEN [err |-> "KeyError", val |-> None]
    ELSE IF index + 1 > Len(scene_metrics[name]) THEN [err |-> "IndexError", val |-> None]
    ELSE [err |-> "", val |-> Some(scene_metrics[name][index + 1])]

\* clipping that floors at the early-stop threshold once stop_flag is set
ClipReward_stop(clip, thresh, dist_error) ==
    IF stop_flag /\ dist_error > stop_thresh THEN -stop_thresh
    ELSE IF clip THEN (IF -dist_error > -thresh THEN -dist_error ELSE -thresh)
    ELSE -dist_error

\* clipping with min in place of max
ClipReward_min(clip, thresh, dist_error) ==
    IF clip THEN (IF -dist_error < -thresh THEN -dist_error ELSE -thresh) ELSE -dist_error

\* reward.py 114-116
ClipReward(clip, thresh, dist_error) ==
    IF clip THEN Max(-thresh, -dist_error) ELSE -dist_error

\* the yaw penalty without the absolute value
YawError_signed(weight, yaw) == weight * yaw

\* reward.py 111: yaw_weight * |yaw_error_ca[frame_index + 1]|
YawError(weight, yaw) == weight * Abs(yaw)

\* reward.py 119-120
ApplyYaw(yaw_on, reward, yaw_error) ==
    IF yaw_on THEN reward - yaw_error ELSE reward

\* recording the magnitude of the clipped reward instead of the raw error
StopErrorOf_clipped(dist_error, clipped, reward) == -clipped

\* reward.py 123
StopErrorOf(dist_error, clipped, reward) == dist_error

Failed(op, frame_index, scene_indices, err, evals) ==
    [op |-> op, frame_index |-> frame_index, scene_indices |-> scene_indices,
     outcome |-> err, evaluate_calls |-> evals,
     dist_error |-> None, yaw |-> None, clipped |-> None, reward |-> None]

\* reward.py 100: the precondition fails before anything is evaluated.
CLE_get_reward_rejected(frame_index, scene_indices) ==
    /\ ~SceneCountOk(scene_indices)
    /\ cle_call' = Failed("get_reward", frame_index, scene_indices, "AssertionError", 0)
    /\ UNCHANGED <<scene_metric_results, stop_error>>

\* reward.py 102-125, past the precondition.  The metric series produced by
\* evaluate are an input of the step.
CLE_get_reward_evaluated(frame_index, scene_indices, metrics) ==
    /\ SceneCountOk(scene_indices)
    /\ LET scene_idx == scene_indices[Len(scene_indices)]
           evaluated == Evaluate(scene_metric_results, scene_indices, metrics)
           scene_metrics == evaluated[scene_idx]
           dist == Lookup(scene_metrics, "displacement_error_l2", frame_index + 1)
           yaw == Lookup(scene_metrics, "yaw_error_ca", frame_index + 1)
           err == IF dist.err # "" THEN dist.err
                  ELSE IF yaw.err # "" THEN yaw.err
                  ELSE IF IsNone(yaw_weight) THEN "TypeError"
                  ELSE ""
       IN /\ scene_metric_results' = evaluated
          /\ IF err # ""
             THEN /\ cle_call' = Failed("get_reward", frame_index, scene_indices, err, 1)
                  /\ UNCHANGED stop_error
             ELSE LET dist_error == Val(dist.val)
                      yaw_error == YawError(Val(yaw_weight), Val(yaw.val))
                      clipped == ClipReward(enable_clip, rew_clip_thresh, dist_error)
                      reward == ApplyYaw(use_yaw, clipped, yaw_error)
                  IN /\ stop_error' = Some(StopErrorOf(dist_error, clipped, reward))
                     /\ cle_call' = [op |-> "get_reward", frame_index |-> frame_index,
                                     scene_indices |-> scene_indices,
                                     outcome |-> "returned", evaluate_calls |-> 1,
                                     dist_error |-> Some(dist_error),
                                     yaw |-> yaw.val,
                                     clipped |-> Some(clipped),
                                     reward |-> Some(reward)]

\* reward.py 88-125: get_reward, for every RewardInput
CLE_Reward_get_reward ==
    /\ \E frame_index \in Frames, scene_indices \in SceneLists :
          \/ CLE_get_reward_rejected(frame_index, scene_indices)
          \/ \E metrics \in SceneMetrics :
                CLE_get_reward_evaluated(frame_index, scene_indices, metrics)
    /\ UNCHANGED <<enable_clip, rew_clip_thresh, use_yaw, yaw_weight, stop_flag, stop_thresh>>

\* reward.py 83-86
CLE_Reward_reset ==
    /\ scene_metric_results' = MetricSetReset(scene_metric_results)
    /\ cle_call' = [Failed("reset", 0, <<>>, "returned", 0) EXCEPT !.frame_index = 0]
    /\ UNCHANGED <<enable_clip, rew_clip_thresh, use_yaw, yaw_weight, stop_flag,
                   stop_thresh, stop_error>>

\* reward.py 64-81: the state after construction.  stop_error is not
\* assigned by the constructor; the metric set has evaluated nothing.
CLE_Init ==
    /\ enable_clip \in BOOLEAN
    /\ rew_clip_thresh \in ClipThreshs
    /\ use_yaw \in BOOLEAN
    /\ yaw_weight \in YawWeights
    /\ stop_flag \in BOOLEAN
    /\ stop_thresh \in StopThreshs
    /\ stop_error = None
    /\ scene_metric_results = <<>>
    /\ cle_call = Failed("init", 0, <<>>, "returned", 0)

\* ------------------------------------------------------ OLE_Reward (reward.py)

Coords == {-1, 1}
PositionArrays == UNION { SeqsOfLen(Coords, n) : n \in 1..MaxPositions }

RECURSIVE SumSeq(_)
SumSeq(xs) == IF Len(xs) = 0 THEN 0 ELSE xs[1] + SumSeq(Tail(xs))

\* a mean that forgets to divide: the sum of the elements
Mean_sum(xs) == [num |-> SumSeq(xs), den |-> 1]

\* ndarray.mean() of a non-empty array, as the fraction num / den
Mean(xs) == [num |-> SumSeq(xs), den |-> Len(xs)]

\* reward.py 154-155: np.square(positions - target_positions).mean(), negated
OLE_penalty(positions, target_positions) ==
    Mean([i \in 1..Len(positions) |->
            (positions[i] - target_positions[i]) * (positions[i] - target_positions[i])])

OLE_get_reward(frame_index, positions, target_positions) ==
    LET penalty == OLE_penalty(positions, target_positions)
    IN ole_call' = [op |-> "get_reward", frame_index |-> frame_index,
                    positions |-> positions, target_positions |-> target_positions,
                    reward |-> Some([num |-> -penalty.num, den |-> penalty.den])]

\* reward.py 145-157: get_reward, for every RewardInput whose two position
\* arrays have the same shape
OLE_Reward_get_reward ==
    \E frame_index \in Frames, positions \in PositionArrays :
      \E target_positions \in SeqsOfLen(Coords, Len(positions)) :
        OLE_get_reward(frame_index, positions, target_positions)

\* reward.py 140-143: pass
OLE_Reward_reset ==
    ole_call' = [ole_call EXCEPT !.op = "reset"]

OLE_Next ==
    \/ OLE_Reward_get_reward /\ UNCHANGED <<cle_vars, agg_vars, angle_vars>>
    \/ OLE_Reward_reset /\ UNCHANGED <<cle_vars, agg_vars, angle_vars>>

\* ------------------------------------------- aggregate_cle_metrics (cle_utils.py)

AggScenes == 0..MaxScene
ValidatorNames == {"collision", "displacement"}

\* ClosedLoopEvaluator.evaluate: every scene handed in gets one verdict
\* (is the scene valid) per validator of the evaluation plan.
EvaluatorEvaluate(results, scene, verdicts) ==
    [s \in (DOMAIN results) \cup {scene} |-> IF s = scene THEN verdicts ELSE results[s]]

\* ClosedLoopEvaluator.validation_results(): the accumulated store
EvaluatorValidationResults(results) == results

\* ClosedLoopEvaluator.reset(): the store is emptied
EvaluatorReset(results) == <<>>

\* ValidationCountingAggregator().aggregate: per validator name, the number
\* of scenes it found invalid; a name appears once a scene reported it.
CountingAggregate(log) ==
    [v \in UNION {DOMAIN log[s] : s \in DOMAIN log} |->
        Cardinality({s \in DOMAIN log : ~log[s][v]})]

\* the table rows of cle_utils.py 38-39
TableRows(agg_log) == {<<metric_name, agg_log[metric_name]>> : metric_name \in DOMAIN agg_log}

\* resetting the evaluator before its results are read
aggregate_cle_metrics_reset_first(results) ==
    LET after == EvaluatorReset(results)
        agg_log == CountingAggregate(EvaluatorValidationResults(after))
    IN [agg_log |-> agg_log, results |-> after, table |-> TableRows(agg_log)]

\* cle_utils.py 31-40: read, aggregate, reset, print
aggregate_cle_metrics(results) ==
    LET validation_results_log == EvaluatorValidationResults(results)
        agg_log == CountingAggregate(validation_results_log)
        after == EvaluatorReset(results)
    IN [agg_log |-> agg_log, results |-> after, table |-> TableRows(agg_log)]

\* a caller runs the evaluator on one more scene
Agg_evaluate ==
    \E scene \in AggScenes, verdicts \in [plan_validators -> BOOLEAN] :
        /\ validation_results' = EvaluatorEvaluate(validation_results, scene, verdicts)
        /\ agg_call' = [agg_call EXCEPT !.op = "evaluate"]
        /\ UNCHANGED plan_validators

Agg_aggregate_cle_metrics ==
    LET done == aggregate_cle_metrics(validation_results)
    IN /\ validation_results' = done.results
       /\ agg_call' = [op |-> "aggregate", agg_log |-> done.agg_log, table |-> done.table]
       /\ UNCHANGED plan_validators

Agg_Next ==
    \/ Agg_evaluate /\ UNCHANGED <<cle_vars, ole_vars, angle_vars>>
    \/ Agg_aggregate_cle_metrics /\ UNCHANGED <<cle_vars, ole_vars, angle_vars>>

\* --------------------------------------------- closest_angle (error_functions.py)

Pi == AngleDiv
TwoPi == 2 * AngleDiv
Angles == (-MaxAngle)..MaxAngle
AngleShapes == {1, 2}
AngleTensors == UNION { SeqsOfLen(Angles, n) : n \in AngleShapes }

\* the remainder with the sign of the divisor (Python's %)
Fmod_floor(x, m) == x % m

\* torch.fmod: the remainder has the sign of the dividend
Fmod(x, m) == IF x >= 0 THEN x % m ELSE -((-x) % m)

\* a single wrap, without the second fmod
closest_angle_single_wrap(a, b) == Fmod(b - a, TwoPi)

\* error_functions.py 29-31, for one element
closest_angle_elem(a, b) ==
    LET wrapped == Fmod(b - a, TwoPi)
    IN Fmod(2 * wrapped, TwoPi) - wrapped

\* error_functions.py 21-31
closest_angle(angle_a, angle_b) ==
    IF Len(angle_a) # Len(angle_b)
    THEN [outcome |-> "AssertionError", out |-> <<>>]
    ELSE [outcome |-> "returned",
          out |-> [i \in 1..Len(angle_a) |-> closest_angle_elem(angle_a[i], angle_b[i])]]

\* closest_angle(angle_a, angle_b) and, for the same tensors, closest_angle(angle_b, angle_a)
Angle_closest_angle ==
    /\ angle_call.pc = "input"
    /\ LET r == closest_angle(angle_call.angle_a, angle_call.angle_b)
           q == closest_angle(angle_call.angle_b, angle_call.angle_a)
       IN angle_call' = [angle_call EXCEPT !.pc = "done", !.outcome = r.outcome,
                                           !.out = r.out, !.out_swapped = q.out]

Angle_Next == Angle_closest_angle /\ UNCHANGED <<cle_vars, ole_vars, agg_vars>>

\* ------------------------------------------------------------ specifications

\* reward.py 64-67: the constructor's default arguments
CLE_Default ==
    /\ enable_clip = TRUE /\ rew_clip_thresh = 15
    /\ use_yaw = TRUE /\ yaw_weight = Some(3)
    /\ stop_flag = FALSE /\ stop_thresh = 20
    /\ stop_error = None
    /\ scene_metric_results = <<>>
    /\ cle_call = Failed("init", 0, <<>>, "returned", 0)

OLE_Idle == ole_call = [op |-> "init", frame_index |-> 0, positions |-> <<>>,
                        target_positions |-> <<>>, reward |-> None]

Agg_Idle == /\ plan_validators = {}
            /\ validation_results = <<>>
            /\ agg_call = [op |-> "init", agg_log |-> <<>>, table |-> {}]

\* an evaluator with any evaluation plan (get_cle, cle_utils.py 15-28, builds
\* the one without validators) that has accumulated nothing yet
Agg_Init == /\ plan_validators \in SUBSET ValidatorNames
            /\ validation_results = <<>>
            /\ agg_call = [op |-> "init", agg_log |-> <<>>, table |-> {}]

Angle_Idle == angle_call = [pc |-> "idle", angle_a |-> <<>>, angle_b |-> <<>>,
                            outcome |-> "", out |-> <<>>, out_swapped |-> <<>>]

\* closest_angle is applied to every pair of tensors
Angle_Init ==
    \E a \in AngleTensors, b \in AngleTensors :
        angle_call = [pc |-> "input", angle_a |-> a, angle_b |-> b,
                      outcome |-> "", out |-> <<>>, out_swapped |-> <<>>]

Init == CLE_Init /\ OLE_Idle /\ Agg_Idle /\ Angle_Idle

Next ==
    \/ CLE_Reward_get_reward /\ UNCHANGED <<ole_vars, agg_vars, angle_vars>>
    \/ CLE_Reward_reset /\ UNCHANGED <<ole_vars, agg_vars, angle_vars>>

Spec == Init /\ [][Next]_vars

\* reward.py 64-81: construction with every early-stop setting (a threshold
\* below and one at the largest displacement error), the yaw penalty at its
\* default
Stop_Init ==
    /\ enable_clip \in BOOLEAN
    /\ rew_clip_thresh \in ClipThreshs
    /\ use_yaw = TRUE
    /\ yaw_weight = Some(3)
    /\ stop_flag \in BOOLEAN
    /\ stop_thresh \in StopSettings
    /\ stop_error = None
    /\ scene_metric_results = <<>>
    /\ cle_call = Failed("init", 0, <<>>, "returned", 0)
    /\ OLE_Idle /\ Agg_Idle /\ Angle_Idle

Stop_Spec == Stop_Init /\ [][Next]_vars

OLE_SpecInit == CLE_Default /\ OLE_Idle /\ Agg_Idle /\ Angle_Idle
OLE_Spec == OLE_SpecInit /\ [][OLE_Next]_vars

Agg_SpecInit == CLE_Default /\ OLE_Idle /\ Agg_Init /\ Angle_Idle
Agg_Spec == Agg_SpecInit /\ [][Agg_Next]_vars

Angle_SpecInit == CLE_Default /\ OLE_Idle /\ Agg_Idle /\ Angle_Init
Angle_Spec == Angle_SpecInit /\ [][Angle_Next]_vars

\* ------------------------------------------------------------ CLE claims

\* The most recent call was a get_reward that returned a reward.
CLE_Returned == cle_call.op = "get_reward" /\ cle_call.outcome = "returned"

\* The values the evaluator holds for the scene and step of the last call.
CLE_Scene == cle_call.scene_indices[1]
CLE_DistAtStep == scene_metric_results[CLE_Scene].displacement_error_l2[cle_call.frame_index + 2]
CLE_YawAtStep == scene_metric_results[CLE_Scene].yaw_error_ca[cle_call.frame_index + 2]
CLE_Floored(d) == IF d > rew_clip_thresh THEN -rew_clip_thresh ELSE -d

\* C1: with enable_clip, the reward before the yaw penalty is
\* max(-rew_clip_thresh, -d) for the displacement error d of the step, and
\* so never below -rew_clip_thresh.
C1_ClipFloor ==
    (CLE_Returned /\ enable_clip) =>
        /\ Val(cle_call.clipped) = CLE_Floored(CLE_DistAtStep)
        /\ Val(cle_call.clipped) >= -rew_clip_thresh

C1_Witness ==
    /\ CLE_Returned /\ enable_clip /\ rew_clip_thresh = 15
    /\ CLE_DistAtStep = 20 /\ Val(cle_call.clipped) = -15

\* C2: the returned reward is the clipped negative displacement error
\* (max(-rew_clip_thresh, -d) with enable_clip, else -d) when use_yaw is
\* off, and that value minus yaw_weight * |y| when use_yaw is on.
C2_RewardValue ==
    CLE_Returned =>
        LET base == IF enable_clip THEN CLE_Floored(CLE_DistAtStep) ELSE -CLE_DistAtStep
        IN Val(cle_call.reward) =
             IF use_yaw THEN base - Val(yaw_weight) * Abs(CLE_YawAtStep) ELSE base

C2_Witness ==
    /\ CLE_Returned /\ use_yaw /\ enable_clip
    /\ CLE_DistAtStep = 20 /\ CLE_YawAtStep = -1 /\ Val(cle_call.reward) = -18

\* C3: a get_reward call whose scene_indices has a length other than 1
\* fails its assertion, returns no reward, never calls evaluate and leaves
\* the metric results and the stop error as they were.
C3_PreconditionFails ==
    [][ (cle_call'.op = "get_reward" /\ Len(cle_call'.scene_indices) # 1) =>
          /\ cle_call'.outcome = "AssertionError"
          /\ cle_call'.reward = None
          /\ cle_call'.evaluate_calls = 0
          /\ scene_metric_results' = scene_metric_results
          /\ stop_error' = stop_error ]_vars

C3_Witness ==
    /\ cle_call.op = "get_reward" /\ cle_call.outcome = "AssertionError"
    /\ Len(cle_call.scene_indices) = 2
    /\ scene_metric_results # <<>> /\ stop_error # None

\* C4: after a get_reward call that returned, the stop error is the raw
\* displacement error of that step, whatever the clipping and yaw settings.
C4_StopErrorIsRaw ==
    CLE_Returned => stop_error = Some(CLE_DistAtStep)

C4_Witness ==
    /\ CLE_Returned /\ enable_clip /\ use_yaw
    /\ CLE_DistAtStep = 20 /\ stop_error = Some(20)
    /\ Val(cle_call.clipped) = -15 /\ Val(cle_call.reward) = -18

\* C5: after reset() the metric results are cleared and no stop error
\* recorded by an earlier get_reward remains.
C5_ResetClearsAll ==
    cle_call.op = "reset" => (scene_metric_results = <<>> /\ stop_error = None)

\* C10: get_reward evaluates exactly once and then reads both series of
\* the scene at index frame_index + 1; when either series is missing or too
\* short the call fails whatever use_yaw is, returns no reward and leaves
\* the stop error as it was, the metric results being already stored.
C10_LookupFailurePropagates ==
    [][ (cle_call'.op = "get_reward" /\ Len(cle_call'.scene_indices) = 1) =>
          LET scene == cle_call'.scene_indices[1]
              index == cle_call'.frame_index + 2
              Has(name) == /\ name \in DOMAIN scene_metric_results'[scene]
                           /\ Len(scene_metric_results'[scene][name]) >= index
          IN /\ cle_call'.evaluate_calls = 1
             /\ scene \in DOMAIN scene_metric_results'
             /\ ~(Has("displacement_error_l2") /\ Has("yaw_error_ca")) =>
                   /\ cle_call'.outcome \in {"KeyError", "IndexError"}
                   /\ cle_call'.reward = None
                   /\ stop_error' = stop_error
             /\ cle_call'.outcome = "returned" =>
                   /\ Has("displacement_error_l2") /\ Has("yaw_error_ca")
                   /\ cle_call'.dist_error =
                        Some(scene_metric_results'[scene].displacement_error_l2[index])
                   /\ cle_call'.yaw = Some(scene_metric_results'[scene].yaw_error_ca[index]) ]_vars

C10_Witness ==
    /\ cle_call.op = "get_reward" /\ cle_call.outcome = "KeyError"
    /\ ~use_yaw /\ stop_error = Some(20)
    /\ "displacement_error_l2" \in DOMAIN scene_metric_results[0]
    /\ Len(scene_metric_results[0].displacement_error_l2) >= cle_call.frame_index + 2
    /\ scene_metric_results[0].displacement_error_l2[cle_call.frame_index + 2] = 0
    /\ "yaw_error_ca" \notin DOMAIN scene_metric_results[0]

\* C11: no call of get_reward or reset changes stop_flag, stop_thresh,
\* enable_clip, rew_clip_thresh, use_yaw or yaw_weight, and what get_reward
\* returns and records as stop error is fixed by the clip and yaw settings
\* and the step's errors alone, so it is the same for every stop_flag and
\* stop_thresh, also once the stop error exceeds stop_thresh.
C11_StopSettingsInert ==
    [][ /\ UNCHANGED <<stop_flag, stop_thresh, enable_clip, rew_clip_thresh,
                       use_yaw, yaw_weight>>
        /\ (cle_call'.op = "get_reward" /\ cle_call'.outcome = "returned") =>
              LET scene == cle_call'.scene_indices[1]
                  index == cle_call'.frame_index + 2
                  d == scene_metric_results'[scene].displacement_error_l2[index]
                  y == scene_metric_results'[scene].yaw_error_ca[index]
                  base == IF enable_clip
                          THEN (IF d > rew_clip_thresh THEN -rew_clip_thresh ELSE -d)
                          ELSE -d
              IN /\ cle_call'.reward =
                      Some(IF use_yaw THEN base - Val(yaw_weight) * Abs(y) ELSE base)
                 /\ stop_error' = Some(d) ]_vars

C11_Witness ==
    /\ CLE_Returned /\ stop_flag /\ stop_thresh = 10
    /\ stop_error = Some(20) /\ CLE_DistAtStep = 20
    /\ ~enable_clip /\ CLE_YawAtStep = 2 /\ Val(cle_call.reward) = -26

\* ------------------------------------------------------------ OLE claims

\* the squared differences of the arrays of the last get_reward, written out
OLE_SqDiff(i) ==
    LET x == ole_call.positions[i] - ole_call.target_positions[i] IN x * x

\* C6: the reward is the negated mean of the squared differences of the two
\* position arrays of the call: never positive, zero exactly when the arrays
\* are identical, the same whatever frame_index is and whichever calls and
\* resets came before; reset leaves the last result as it was.
C6_NegatedMSE ==
    ole_call.reward # None =>
        LET r == Val(ole_call.reward)
            n == Len(ole_call.positions)
        IN /\ r.den = n /\ n > 0
           /\ -r.num = SumSeq([i \in 1..n |-> OLE_SqDiff(i)])
           /\ r.num <= 0
           /\ (r.num = 0) <=> (ole_call.positions = ole_call.target_positions)

C6_Witness ==
    /\ ole_call.op = "reset" /\ ole_call.frame_index = 1
    /\ Len(ole_call.positions) = 2
    /\ ole_call.positions = ole_call.target_positions
    /\ Val(ole_call.reward).num = 0

\* ------------------------------------------------------ aggregation claims

\* C7: a call of aggregate_cle_metrics leaves the validation-results store
\* empty, and the counts it aggregates and prints are those of the results
\* accumulated before the call.
C7_AggregateThenReset ==
    [][ agg_call'.op = "aggregate" =>
          /\ validation_results' = <<>>
          /\ agg_call'.table =
                { <<v, Cardinality({s \in DOMAIN validation_results :
                                      ~validation_results[s][v]})>> :
                  v \in IF validation_results = <<>> THEN {} ELSE plan_validators }
          /\ \A row \in agg_call'.table : agg_call'.agg_log[row[1]] = row[2] ]_vars

C7_Witness ==
    /\ agg_call.op = "aggregate" /\ validation_results = <<>>
    /\ <<"collision", 2>> \in agg_call.table
    /\ <<"displacement", 1>> \in agg_call.table

\* ----------------------------------------------------- closest_angle claims

Angle_Returned == angle_call.pc = "done" /\ angle_call.outcome = "returned"
Angle_Wrapped(i) ==
    LET d == angle_call.angle_b[i] - angle_call.angle_a[i]
    IN IF d >= 0 THEN d % TwoPi ELSE -((-d) % TwoPi)

\* C8 as stated: every element of the result lies in (-pi, pi].
C8_HalfOpenRange ==
    Angle_Returned =>
        \A i \in 1..Len(angle_call.out) : -Pi < angle_call.out[i] /\ angle_call.out[i] <= Pi

\* C8: every element of the result lies in the closed interval [-pi, pi];
\* it is -pi where the wrapped difference fmod(b - a, 2 pi) is pi, and pi
\* where the wrapped difference is -pi.
C8_ClosedRange ==
    Angle_Returned =>
        \A i \in 1..Len(angle_call.out) :
            /\ -Pi <= angle_call.out[i] /\ angle_call.out[i] <= Pi
            /\ (angle_call.out[i] = -Pi) <=> (Angle_Wrapped(i) = Pi)
            /\ (angle_call.out[i] = Pi) <=> (Angle_Wrapped(i) = -Pi)

C8_Witness ==
    /\ Angle_Returned /\ Len(angle_call.out) = 2
    /\ angle_call.angle_b[1] - angle_call.angle_a[1] = Pi /\ angle_call.out[1] = -Pi
    /\ angle_call.angle_b[2] - angle_call.angle_a[2] = -3 * Pi /\ angle_call.out[2] = Pi

\* C9: closest_angle(a, b) = -closest_angle(b, a) element by element, and
\* closest_angle(a, a) is zero everywhere.
C9_Antisymmetric ==
    Angle_Returned =>
        /\ Len(angle_call.out_swapped) = Len(angle_call.out)
        /\ \A i \in 1..Len(angle_call.out) : angle_call.out[i] = -angle_call.out_swapped[i]
        /\ angle_call.angle_a = angle_call.angle_b =>
               \A i \in 1..Len(angle_call.out) : angle_call.out[i] = 0

C9_Witness ==
    /\ Angle_Returned /\ Len(angle_call.out) = 2
    /\ angle_call.angle_b[1] - angle_call.angle_a[1] = Pi
    /\ angle_call.out[1] = -Pi /\ angle_call.out_swapped[1] = Pi
    /\ angle_call.angle_a[2] = angle_call.angle_b[2] /\ angle_call.out[2] = 0

====
